---- MODULE Spec2Model ----
(***************************************************************************)
(* State-machine model of scripts/scan_stale_branches.py: the GET wrapper  *)
(* github_get (retry loop with rate-limit branch), calculate_cutoff, and   *)
(* main (repository pagination, ITAP filter, branch pagination, exclusion  *)
(* rules, commit lookup, staleness test, sort and report files).           *)
(*                                                                         *)
(* One step of the scan is one HTTP response received by the github_get    *)
(* call in flight, together with everything the script does until the next *)
(* HTTP request is issued (or until the script ends).                      *)
(*                                                                         *)
(* Timestamps are records [year, month, hour] where hour counts the hours  *)
(* since 00:00 of day 1 of that month; the minutes and seconds of every    *)
(* timestamp used are 0.  Strings are TLA+ strings.                        *)
(***************************************************************************)
EXTENDS Integers, Sequences, FiniteSets, TLC

VARIABLES
    pc,            \* where main is: which request is in flight, or how it ended
    token,         \* os.environ.get("GITHUB_TOKEN") ("" when unset)
    itaps_arg,     \* args.itaps
    months,        \* args.months
    now_et,        \* datetime.now(ET): [year, month]
    itaps,         \* normalised filter list
    cutoff,        \* calculate_cutoff(now_et, months)
    headers,       \* main: headers
    repos,         \* main: repos
    page,          \* main: page
    repo_i,        \* main: position of `for repo in repos` (1-based)
    branch_page,   \* main: branch_page
    branches,      \* main: branches (the page being iterated)
    br_i,          \* main: position of `for br in branches` (1-based)
    commit_data,   \* main: commit_data of the last commit fetched
    stale,         \* main: stale
    out_dir,       \* TRUE once os.makedirs(args.out) ran
    csv,           \* rows written to stale_report.csv (<<>>: no file)
    html,          \* rows written to email.html (<<>>: no file)
    request,       \* the HTTP request in flight (or the last one issued)
    response,      \* github_get: r, the last HTTP response received
    attempt,       \* github_get: loop variable of the call in flight
    outcome,       \* history: how the last finished github_get call ended
    hist,          \* history of the current call: requests, responses, waits
    found,         \* history: the records in the order they were appended to stale
    brSeen,        \* history: branches iterated so far, per repository index
    raised         \* history: number of github_get calls that raised

mainVars == <<pc, repos, page, repo_i, branch_page, branches, br_i, stale>>
fileVars == <<out_dir, csv, html>>
histVars == <<found, brSeen>>
inputVars == <<token, itaps_arg, months, now_et>>
callVars == <<request, response, attempt, outcome, hist>>
vars == <<pc, token, itaps_arg, months, now_et, itaps, cutoff, headers, repos, page,
          repo_i, branch_page, branches, br_i, commit_data, stale, out_dir, csv, html,
          request, response, attempt, outcome, hist, found, brSeen, raised>>

(***************************************************************************)
(* Configuration (module constants of the script)                          *)
(***************************************************************************)
GITHUB_API == "https://api.github.com"
BASE_HEADERS ==
    [accept |-> "application/vnd.github+json",
     user_agent |-> "enterprise-github-audit-prod"]
PER_PAGE == 100
PROTECTED_BRANCHES == {"main", "master", "develop", "prod"}
RELEASE_PREFIX == "release/"
MAX_RETRIES == 3
RETRY_BACKOFF == 2
MIN_RATE_LIMIT_SLEEP == 5
MONTHS_PER_YEAR == 12

(***************************************************************************)
(* Bounds of the model                                                     *)
(***************************************************************************)
MaxMonths == 240        \* thresholds 0..MaxMonths in the calendar specification
FirstYear == 2023       \* first year of `now` in the calendar specification
NumYears == 2           \* number of years `now` spans there
EpochNow == 1000        \* int(time.time()) when a rate-limit response arrives
CommitSpread == 2       \* commits up to so many months around now - months there

(***************************************************************************)
(* String helpers (str.startswith, str.upper, str.strip, str.split, in)    *)
(***************************************************************************)
startswith(s, prefix) ==
    /\ Len(s) >= Len(prefix)
    /\ SubSeq(s, 1, Len(prefix)) = prefix

LowerLetters == "abcdefghijklmnopqrstuvwxyz"
UpperLetters == "ABCDEFGHIJKLMNOPQRSTUVWXYZ"

UpperChar(c) ==
    IF \E i \in 1..Len(LowerLetters) : SubSeq(LowerLetters, i, i) = c
    THEN LET i == CHOOSE j \in 1..Len(LowerLetters) : SubSeq(LowerLetters, j, j) = c
         IN SubSeq(UpperLetters, i, i)
    ELSE c

RECURSIVE upper(_)
upper(s) ==
    IF Len(s) = 0 THEN ""
    ELSE UpperChar(SubSeq(s, 1, 1)) \o upper(SubSeq(s, 2, Len(s)))

LowerChar(c) ==
    IF \E i \in 1..Len(UpperLetters) : SubSeq(UpperLetters, i, i) = c
    THEN LET i == CHOOSE j \in 1..Len(UpperLetters) : SubSeq(UpperLetters, j, j) = c
         IN SubSeq(LowerLetters, i, i)
    ELSE c

RECURSIVE lower(_)
lower(s) ==
    IF Len(s) = 0 THEN ""
    ELSE LowerChar(SubSeq(s, 1, 1)) \o lower(SubSeq(s, 2, Len(s)))

RECURSIVE lstrip(_)
lstrip(s) ==
    IF Len(s) > 0 /\ SubSeq(s, 1, 1) = " " THEN lstrip(SubSeq(s, 2, Len(s))) ELSE s

RECURSIVE rstrip(_)
rstrip(s) ==
    IF Len(s) > 0 /\ SubSeq(s, Len(s), Len(s)) = " "
    THEN rstrip(SubSeq(s, 1, Len(s) - 1)) ELSE s

strip(s) == rstrip(lstrip(s))

\* s.split(","): the pieces between commas, empty pieces kept
RECURSIVE split(_)
split(s) ==
    IF \E i \in 1..Len(s) : SubSeq(s, i, i) = ","
    THEN LET i == CHOOSE j \in 1..Len(s) :
                     /\ SubSeq(s, j, j) = ","
                     /\ \A k \in 1..(j - 1) : SubSeq(s, k, k) # ","
         IN <<SubSeq(s, 1, i - 1)>> \o split(SubSeq(s, i + 1, Len(s)))
    ELSE <<s>>

\* `t in s` for strings
contains(s, t) ==
    \E i \in 1..(Len(s) - Len(t) + 1) : SubSeq(s, i, i + Len(t) - 1) = t

\* itaps = [i.strip().upper() for i in args.itaps.split(",")]
normalize_itaps(arg) ==
    LET parts == split(arg)
    IN [k \in 1..Len(parts) |-> upper(strip(parts[k]))]

\* a filter that retains every repository
repo_matches_all(repo_name, itapList) == TRUE

\* any(itap in repo_upper for itap in itaps)
repo_matches(repo_name, itapList) ==
    \E k \in 1..Len(itapList) : contains(upper(repo_name), itapList[k])

(***************************************************************************)
(* Calendar                                                                *)
(***************************************************************************)
IsLeap(y) == (y % 4 = 0 /\ y % 100 # 0) \/ y % 400 = 0

DaysInMonth(y, m) ==
    IF m = 2 THEN (IF IsLeap(y) THEN 29 ELSE 28)
    ELSE IF m \in {4, 6, 9, 11} THEN 30 ELSE 31

\* America/New_York: is daylight time in force at UTC hour h of month m, year y?
\* Decided for the hours the model uses: the first six hours of a month
\* (h < 6) and 00:00 of day 20 (h = 456).  Since 2007 daylight time runs from
\* the second Sunday of March to the first Sunday of November (06:00 UTC);
\* from 1987 to 2006 from the first Sunday of April to the last of October.
IsEDT(y, m, h) ==
    IF y >= 2007
    THEN IF h < 6 THEN m \in 4..11 ELSE m \in 3..10
    ELSE IF h < 6 THEN m \in 5..10 ELSE m \in 4..10

UtcOffsetHours(y, m, h) == IF IsEDT(y, m, h) THEN 4 ELSE 5

\* commit_utc.astimezone(ET): the wall-clock fields in US Eastern time
astimezone_ET(d) ==
    LET off == UtcOffsetHours(d.year, d.month, d.hour)
        py == IF d.month = 1 THEN d.year - 1 ELSE d.year
        pm == IF d.month = 1 THEN MONTHS_PER_YEAR ELSE d.month - 1
    IN IF d.hour >= off
       THEN [year |-> d.year, month |-> d.month, hour |-> d.hour - off]
       ELSE [year |-> py, month |-> pm,
             hour |-> DaysInMonth(py, pm) * 24 + d.hour - off]

RECURSIVE WrapMonth_from_zero(_, _)
WrapMonth_from_zero(year, month) ==
    IF month < 0 THEN WrapMonth_from_zero(year - 1, month + MONTHS_PER_YEAR)
    ELSE <<year, month>>

\* the `while month <= 0` loop of calculate_cutoff
RECURSIVE WrapMonth(_, _)
WrapMonth(year, month) ==
    IF month <= 0 THEN WrapMonth(year - 1, month + MONTHS_PER_YEAR)
    ELSE <<year, month>>

calculate_cutoff_nowrap(now, m) ==
    [year |-> now.year,
     month |-> IF now.month - m <= 0
               THEN WrapMonth(now.year, now.month - m)[2] ELSE now.month - m,
     hour |-> 0]

\* calculate_cutoff(now_et, months): day 1, 00:00 of the wrapped month
calculate_cutoff(now, m) ==
    LET ym == WrapMonth(now.year, now.month - m)
    IN [year |-> ym[1], month |-> ym[2], hour |-> 0]

\* a <= b for two datetimes with the same tzinfo: the wall-clock fields compare
dt_le(a, b) ==
    \/ a.year < b.year
    \/ a.year = b.year /\ a.month < b.month
    \/ a.year = b.year /\ a.month = b.month /\ a.hour <= b.hour

\* age = (now_et.year - commit_et.year) * 12 + (now_et.month - commit_et.month)
age_months(now, commit_et) ==
    (now.year - commit_et.year) * MONTHS_PER_YEAR + (now.month - commit_et.month)

(***************************************************************************)
(* The provider: what the GitHub API holds during the scan                 *)
(***************************************************************************)
Date(y, m, h) == [year |-> y, month |-> m, hour |-> h]
NoDate == Date(0, 0, 0)

\* body of "get commit": commit.author with its optional fields
Commit(hasAuthor, name, email, hasDate, date) ==
    [none |-> FALSE, has_author |-> hasAuthor, name |-> name, email |-> email,
     has_date |-> hasDate, date |-> date]

Branch(name, protected, url) == [name |-> name, protected |-> protected, url |-> url]

\* "list repositories in organization", page by page (pages after the last are empty)
RepoPages ==
    << <<[name |-> "APP1-api"], [name |-> "other-svc"]>>,
       <<[name |-> "app1-web"]>> >>

\* "list branches in repository", page by page
BranchPages(repo_name) ==
    CASE repo_name = "APP1-api" ->
           << <<Branch("main", FALSE, "c-main"),
                Branch("feature-a", FALSE, "c-feature-a"),
                Branch("release/1", FALSE, "c-release-1")>>,
              <<Branch("fix-b", FALSE, "c-fix-b"),
                Branch("guarded", TRUE, "c-guarded"),
                Branch("noauthor-g", FALSE, "c-noauthor-g")>> >>
      [] repo_name = "app1-web" ->
           << <<Branch("nodate-d", FALSE, "c-nodate-d"),
                Branch("tie-c", FALSE, "c-tie-c"),
                Branch("edge-e", FALSE, "c-edge-e"),
                Branch("new-f", FALSE, "c-new-f")>> >>
      [] repo_name = "other-svc" ->
           << <<Branch("old-h", FALSE, "c-old-h")>> >>
      [] OTHER -> << >>

\* "get commit by reference" (author dates in UTC)
CommitOf(url) ==
    CASE url = "c-feature-a" -> Commit(TRUE, "Ann", "ann@x.org", TRUE, Date(2023, 10, 456))
      [] url = "c-fix-b"     -> Commit(TRUE, "", "bob@x.org", TRUE, Date(2023, 10, 3))
      [] url = "c-nodate-d"  -> Commit(TRUE, "Dee", "dee@x.org", FALSE, NoDate)
      [] url = "c-noauthor-g" -> Commit(FALSE, "", "", FALSE, NoDate)
      [] url = "c-tie-c"     -> Commit(TRUE, "Cy", "", TRUE, Date(2023, 10, 456))
      [] url = "c-edge-e"    -> Commit(TRUE, "Eve", "eve@x.org", TRUE, Date(2023, 11, 4))
      [] url = "c-new-f"     -> Commit(TRUE, "Fay", "fay@x.org", TRUE, Date(2024, 1, 456))
      [] OTHER               -> Commit(TRUE, "Old", "old@x.org", TRUE, Date(2020, 1, 456))

\* the page the provider returns for ?page=p
ProviderPage(pages, p) == IF p \in 1..Len(pages) THEN pages[p] ELSE << >>

RECURSIVE Flatten(_)
Flatten(pages) ==
    IF pages = << >> THEN << >> ELSE Head(pages) \o Flatten(Tail(pages))

\* every page before the provider's first empty page, concatenated
RECURSIVE UpToFirstEmpty(_)
UpToFirstEmpty(pages) ==
    IF pages = << >> \/ Head(pages) = << >> THEN << >>
    ELSE Head(pages) \o UpToFirstEmpty(Tail(pages))

AllRepos == Flatten(RepoPages)

\* HTTP responses a request can receive; status 0 stands for requests.get raising
\* (timeout, connection error); reset is the X-RateLimit-Reset header, 0 if absent
Response(status, text, reset) == [status |-> status, text |-> text, reset |-> reset]

Responses ==
    { Response(200, "", 0),
      Response(403, "API rate limit exceeded for user", 0),
      Response(403, "API Rate Limit exceeded", EpochNow + 3),
      Response(403, "You have exceeded a secondary rate limit", EpochNow + 60),
      Response(403, "Resource not accessible", 0),
      Response(429, "API rate limit exceeded", EpochNow + 60),
      Response(500, "", 0),
      Response(0, "", 0) }

(***************************************************************************)
(* Branch classifier (main, lines 161-200)                                 *)
(***************************************************************************)
is_excluded_no_prefix(br) ==
    \/ br.protected
    \/ br.name \in PROTECTED_BRANCHES

\* the two `continue` tests of the branch loop
is_excluded(br) ==
    \/ br.protected
    \/ br.name \in PROTECTED_BRANCHES \/ startswith(br.name, RELEASE_PREFIX)

\* author_info.get(k) or "unknown"
or_unknown(v) == IF v = "" THEN "unknown" ELSE v

StaleRecord(repo_name, br, cd, now) ==
    LET commit_et == astimezone_ET(cd.date)
    IN [repo |-> repo_name, branch |-> br.name, last_commit |-> commit_et,
        age |-> age_months(now, commit_et),
        author |-> or_unknown(cd.name), email |-> or_unknown(cd.email)]

is_stale_by_month(cd, cut) ==
    LET commit_et == astimezone_ET(cd.date)
    IN \/ commit_et.year < cut.year
       \/ commit_et.year = cut.year /\ commit_et.month <= cut.month

\* `if commit_et <= cutoff`
is_stale(cd, cut) == dt_le(astimezone_ET(cd.date), cut)

classify_undated_as_stale(repo_name, br, cd, now, cut) ==
    IF is_stale(cd, cut) THEN <<StaleRecord(repo_name, br, cd, now)>>
    ELSE << >>

\* lines 170-200 for one fetched commit: the records to append (none or one)
classify(repo_name, br, cd, now, cut) ==
    IF ~cd.has_author \/ ~cd.has_date THEN << >>
    ELSE IF is_stale(cd, cut) THEN <<StaleRecord(repo_name, br, cd, now)>>
    ELSE << >>

(***************************************************************************)
(* Report aggregator (main, lines 204-271)                                 *)
(***************************************************************************)
\* r goes before the first record of s that is strictly younger than r
InsertDesc(s, r) ==
    LET before == {i \in 1..Len(s) : s[i].age >= r.age}
        k == IF before = {} THEN 0
             ELSE CHOOSE i \in before : \A j \in before : j <= i
    IN SubSeq(s, 1, k) \o <<r>> \o SubSeq(s, k + 1, Len(s))

InsertDescFront(s, r) ==
    LET before == {i \in 1..Len(s) : s[i].age > r.age}
        k == IF before = {} THEN 0
             ELSE CHOOSE i \in before : \A j \in before : j <= i
    IN SubSeq(s, 1, k) \o <<r>> \o SubSeq(s, k + 1, Len(s))

RECURSIVE sort_ties_reversed(_)
sort_ties_reversed(s) ==
    IF s = << >> THEN << >>
    ELSE InsertDescFront(sort_ties_reversed(SubSeq(s, 1, Len(s) - 1)), s[Len(s)])

\* stale.sort(key=lambda x: x[3], reverse=True): Python's sort is stable, also
\* with reverse=True
RECURSIVE sort_by_age_desc(_)
sort_by_age_desc(s) ==
    IF s = << >> THEN << >>
    ELSE InsertDesc(sort_by_age_desc(SubSeq(s, 1, Len(s) - 1)), s[Len(s)])

NoFile == [written |-> FALSE, rows |-> << >>]
File(rows) == [written |-> TRUE, rows |-> rows]

(***************************************************************************)
(* main between two requests.  A frame holds main's locals and the files;  *)
(* each operator maps the frame at one point of main to the frame at the   *)
(* next request (pc in RequestStates) or at the end of the script.         *)
(***************************************************************************)
RequestStates == {"repos", "branches", "commit"}
EndStates == {"done_report", "done_nostale", "failed", "crashed", "config_error"}

\* github_get returning None (the for loop ran out)
NoneData == [none |-> TRUE]

Frame ==
    [pc |-> pc, repos |-> repos, page |-> page, repo_i |-> repo_i,
     branch_page |-> branch_page, branches |-> branches, br_i |-> br_i,
     commit_data |-> commit_data, stale |-> stale,
     out_dir |-> out_dir, csv |-> csv, html |-> html,
     found |-> found, brSeen |-> brSeen]

Min(S) == CHOOSE x \in S : \A y \in S : x <= y

render_always_writes(s) ==
    LET sorted == sort_by_age_desc(s.stale)
    IN [s EXCEPT !.pc = IF sorted = << >> THEN "done_nostale" ELSE "done_report",
                 !.stale = sorted, !.out_dir = TRUE,
                 !.csv = File(sorted), !.html = File(sorted)]

\* lines 204-271: nothing written without records; else sort, makedirs, CSV, HTML
render(s) ==
    IF s.stale = << >> THEN [s EXCEPT !.pc = "done_nostale"]
    ELSE LET sorted == sort_by_age_desc(s.stale)
         IN [s EXCEPT !.pc = "done_report", !.stale = sorted, !.out_dir = TRUE,
                      !.csv = File(sorted), !.html = File(sorted)]

\* lines 140-156: `for repo in repos` from position i on, up to the first
\* repository that passes the ITAP filter and its first branch-page request
next_repo(s, i) ==
    LET cand == {j \in i..Len(s.repos) : repo_matches(s.repos[j].name, itaps)}
    IN IF cand = {} THEN render([s EXCEPT !.repo_i = Len(s.repos) + 1])
       ELSE [s EXCEPT !.pc = "branches", !.repo_i = Min(cand), !.branch_page = 1]

\* lines 161-169 and 202: `for br in branches` from position k on, up to the
\* first branch that is not excluded (its commit request), else the next page
next_branch(s, k) ==
    LET cand == {j \in k..Len(s.branches) : ~is_excluded(s.branches[j])}
    IN IF cand = {}
       THEN [s EXCEPT !.pc = "branches", !.br_i = Len(s.branches) + 1,
                      !.branch_page = @ + 1]
       ELSE [s EXCEPT !.pc = "commit", !.br_i = Min(cand)]

\* a repository loop that asks for the same page again
after_repos_same_page(s, is_none, data) ==
    IF is_none \/ data = << >> THEN next_repo(s, 1) ELSE s

\* lines 127-130: data is what github_get returned for the repository page
after_repos(s, is_none, data) ==
    IF is_none \/ data = << >> THEN next_repo(s, 1)
    ELSE [s EXCEPT !.repos = @ \o data, !.page = @ + 1]

\* lines 158-161
after_branches(s, is_none, data) ==
    IF is_none \/ data = << >> THEN next_repo(s, s.repo_i + 1)
    ELSE next_branch([s EXCEPT !.branches = data,
                               !.brSeen[s.repo_i] = @ \o data], 1)

\* lines 169-200: commit_data.get on None raises AttributeError
after_commit(s, cd) ==
    IF cd.none THEN [s EXCEPT !.pc = "crashed", !.commit_data = cd]
    ELSE LET recs == classify(s.repos[s.repo_i].name, s.branches[s.br_i], cd,
                              now_et, cutoff)
         IN next_branch([s EXCEPT !.commit_data = cd, !.stale = @ \o recs,
                                  !.found = @ \o recs], s.br_i + 1)

on_raise_skip_repository(s) == next_repo(s, s.repo_i + 1)

\* lines 65-68: the RequestException leaves github_get and main
on_raise(s) == [s EXCEPT !.pc = "failed"]

(***************************************************************************)
(* The requests main hands to github_get                                   *)
(***************************************************************************)
\* args.org
ScanOrg == "acme"

token_missing_unchecked(tok) == FALSE

\* `if not token`
token_missing(tok) == tok = ""

\* headers = {**BASE_HEADERS, "Authorization": f"token {token}"}
build_headers(tok) ==
    [accept |-> BASE_HEADERS.accept, user_agent |-> BASE_HEADERS.user_agent,
     authorization |-> "token " \o tok]

NoHeaders == [accept |-> "", user_agent |-> "", authorization |-> ""]

\* {"per_page": 100, "page": p}; NoParams is params=None
PageParams(p) == [per_page |-> PER_PAGE, page |-> p]
NoParams == [per_page |-> 0, page |-> 0]

Request(url, hdrs, params) == [url |-> url, headers |-> hdrs, params |-> params]
NoRequest == Request("", NoHeaders, NoParams)
NoResponse == [status |-> 0, text |-> "none", reset |-> 0]

ReposUrl == GITHUB_API \o "/orgs/" \o ScanOrg \o "/repos"
BranchesUrl(repo_name) ==
    GITHUB_API \o "/repos/" \o ScanOrg \o "/" \o repo_name \o "/branches"

\* the arguments of the github_get call main makes at frame s
request_of(s, hdrs) ==
    CASE s.pc = "repos" -> Request(ReposUrl, hdrs, PageParams(s.page))
      [] s.pc = "branches" ->
           Request(BranchesUrl(s.repos[s.repo_i].name), hdrs, PageParams(s.branch_page))
      [] s.pc = "commit" -> Request(s.branches[s.br_i].url, hdrs, NoParams)

(***************************************************************************)
(* github_get (lines 48-71), one HTTP response at a time                   *)
(***************************************************************************)
\* one time.sleep of a call: its kind, its seconds, the attempt it followed
Wait(kind, secs, a) == [kind |-> kind, secs |-> secs, attempt |-> a]

\* r.status_code == 403 and "rate limit" in r.text.lower()
is_rate_limited(r) == r.status = 403 /\ contains(lower(r.text), "rate limit")

\* requests.get raised, or r.raise_for_status() raises (4xx and 5xx)
request_failed(r) == r.status = 0 \/ r.status \in 400..599

\* sleep_time = max(reset_time - int(time.time()), 5)
sleep_time(r) ==
    IF r.reset - EpochNow > MIN_RATE_LIMIT_SLEEP THEN r.reset - EpochNow
    ELSE MIN_RATE_LIMIT_SLEEP

\* the same delay before every retry
backoff_constant(a) == RETRY_BACKOFF

\* sleep = RETRY_BACKOFF ** attempt
backoff(a) == RETRY_BACKOFF ^ a

is_last_attempt_early(a) == a >= MAX_RETRIES - 1

\* `if attempt == MAX_RETRIES`
is_last_attempt(a) == a = MAX_RETRIES

\* a loop over range(1, MAX_RETRIES + 2)
loop_continues_one_more(a) == a + 1 \in 1..(MAX_RETRIES + 1)

\* `for attempt in range(1, MAX_RETRIES + 1)` has a next value after a
loop_continues(a) == a + 1 \in 1..MAX_RETRIES

NoCall == [nreq |-> 0, nRL |-> 0, nFail |-> 0, waits |-> << >>]
NewCall == [nreq |-> 1, nRL |-> 0, nFail |-> 0, waits |-> << >>]

\* main's locals and the files become frame s; a frame at a request starts a
\* new github_get call, otherwise h is the history of the call that just ended
Apply(s, h) ==
    /\ pc' = s.pc
    /\ repos' = s.repos
    /\ page' = s.page
    /\ repo_i' = s.repo_i
    /\ branch_page' = s.branch_page
    /\ branches' = s.branches
    /\ br_i' = s.br_i
    /\ commit_data' = s.commit_data
    /\ stale' = s.stale
    /\ out_dir' = s.out_dir
    /\ csv' = s.csv
    /\ html' = s.html
    /\ found' = s.found
    /\ brSeen' = s.brSeen
    /\ request' = IF s.pc \in RequestStates THEN request_of(s, headers) ELSE request
    /\ attempt' = IF s.pc \in RequestStates THEN 1 ELSE attempt
    /\ hist' = IF s.pc \in RequestStates THEN NewCall ELSE h

\* main continues with the value v that github_get returned (is_none: None)
returned(is_none, v) ==
    CASE pc = "repos" -> after_repos(Frame, is_none, v)
      [] pc = "branches" -> after_branches(Frame, is_none, v)
      [] pc = "commit" -> after_commit(Frame, IF is_none THEN NoneData ELSE v)

\* the decoded body of a 200 response to the request in flight
Body ==
    CASE pc = "repos" -> ProviderPage(RepoPages, page)
      [] pc = "branches" -> ProviderPage(BranchPages(repos[repo_i].name), branch_page)
      [] pc = "commit" -> CommitOf(branches[br_i].url)

(***************************************************************************)
(* Actions of the scan                                                     *)
(***************************************************************************)
\* main, lines 97-126: credential check, ITAP list, cutoff, first request
Start ==
    /\ pc = "start"
    /\ IF token_missing(token)
       THEN /\ pc' = "config_error"
            /\ UNCHANGED <<itaps, cutoff, headers, repos, page, request, attempt, hist>>
       ELSE /\ pc' = "repos"
            /\ headers' = build_headers(token)
            /\ itaps' = normalize_itaps(itaps_arg)
            /\ cutoff' = calculate_cutoff(now_et, months)
            /\ repos' = << >>
            /\ page' = 1
            /\ request' = Request(ReposUrl, build_headers(token), PageParams(1))
            /\ attempt' = 1
            /\ hist' = NewCall
    /\ UNCHANGED <<inputVars, repo_i, branch_page, branches, br_i, commit_data,
                   stale, fileVars, response, outcome, histVars, raised>>

\* lines 52-63 with a 2xx response: return r.json(), and main goes on
ResponseSuccess ==
    /\ pc \in RequestStates
    /\ \E r \in Responses :
         /\ ~is_rate_limited(r)
         /\ ~request_failed(r)
         /\ response' = r
         /\ outcome' = "SUCCESS"
         /\ Apply(returned(FALSE, Body), hist)
    /\ UNCHANGED <<inputVars, itaps, cutoff, headers, raised>>

\* lines 55-60: sleep and `continue`; when the loop has no next value the
\* function ends without a return statement (None), and main goes on
ResponseRateLimit ==
    /\ pc \in RequestStates
    /\ \E r \in Responses :
         /\ is_rate_limited(r)
         /\ response' = r
         /\ LET h == [hist EXCEPT !.nRL = @ + 1,
                                  !.waits = Append(@, Wait("rate_limit", sleep_time(r),
                                                           attempt))]
            IN IF loop_continues(attempt)
               THEN /\ attempt' = attempt + 1
                    /\ hist' = [h EXCEPT !.nreq = @ + 1]
                    /\ UNCHANGED <<mainVars, commit_data, fileVars, histVars, outcome,
                                   request>>
               ELSE /\ outcome' = "RETURNED_NONE"
                    /\ Apply(returned(TRUE, << >>), h)
    /\ UNCHANGED <<inputVars, itaps, cutoff, headers, raised>>

\* lines 65-71: raise on the last attempt, else back off and retry
ResponseFailure ==
    /\ pc \in RequestStates
    /\ \E r \in Responses :
         /\ ~is_rate_limited(r)
         /\ request_failed(r)
         /\ response' = r
         /\ LET h == [hist EXCEPT !.nFail = @ + 1]
            IN IF is_last_attempt(attempt)
               THEN /\ outcome' = "PERMANENT_FAILURE"
                    /\ raised' = raised + 1
                    /\ Apply(on_raise(Frame), h)
               ELSE /\ attempt' = attempt + 1
                    /\ hist' = [h EXCEPT !.nreq = @ + 1,
                                         !.waits = Append(@, Wait("backoff",
                                                                  backoff(attempt),
                                                                  attempt))]
                    /\ UNCHANGED <<mainVars, commit_data, fileVars, histVars,
                                   outcome, raised, request>>
    /\ UNCHANGED <<inputVars, itaps, cutoff, headers>>

ScanNow == [year |-> 2024, month |-> 1]
ScanMonths == {2, 3, 6}
ScanItaps == {"app1", " app1 ,zz9"}
ScanTokens == {"", "ghp_token"}

Unstarted ==
    /\ itaps = << >>
    /\ cutoff = NoDate
    /\ headers = NoHeaders
    /\ request = NoRequest
    /\ response = NoResponse
    /\ repos = << >>
    /\ page = 0
    /\ repo_i = 0
    /\ branch_page = 0
    /\ branches = << >>
    /\ br_i = 0
    /\ commit_data = NoneData
    /\ stale = << >>
    /\ out_dir = FALSE
    /\ csv = NoFile
    /\ html = NoFile
    /\ attempt = 0
    /\ outcome = "none"
    /\ hist = NoCall
    /\ found = << >>
    /\ brSeen = [i \in 1..Len(AllRepos) |-> << >>]
    /\ raised = 0

Init ==
    /\ pc = "start"
    /\ token \in ScanTokens
    /\ itaps_arg \in ScanItaps
    /\ months \in ScanMonths
    /\ now_et = ScanNow
    /\ Unstarted

Next ==
    \/ Start
    \/ ResponseFailure
    \/ ResponseRateLimit
    \/ ResponseSuccess

Spec == Init /\ [][Next]_vars

\* every request is answered or times out (timeout=30, line 52) and every
\* sleep ends, so a scan that can take a step eventually takes one
SpecLive == Spec /\ WF_vars(Next)

(***************************************************************************)
(* Calendar specification: calculate_cutoff and the staleness test of main *)
(* on drawn inputs: every threshold 0..MaxMonths, every month of NumYears  *)
(* years, commits at the sample hours of the months around now - months.   *)
(***************************************************************************)
MonthIndex(d) == d.year * MONTHS_PER_YEAR + d.month - 1
MonthOfIndex(i, h) == Date(i \div MONTHS_PER_YEAR, (i % MONTHS_PER_YEAR) + 1, h)

\* UTC hours of a month: its first hours (around midnight Eastern) and day 20
SampleHours == {0, 3, 4, 5, 456}

InitCalendar ==
    /\ pc = "calendar"
    /\ token = "ghp_token"
    /\ itaps_arg = "app1"
    /\ months \in 0..MaxMonths
    /\ now_et \in [year : FirstYear..(FirstYear + NumYears - 1), month : 1..MONTHS_PER_YEAR]
    /\ Unstarted

\* line 109
CalcCutoff ==
    /\ pc = "calendar"
    /\ pc' = "cutoff"
    /\ cutoff' = calculate_cutoff(now_et, months)
    /\ UNCHANGED <<inputVars, itaps, headers, repos, page, repo_i, branch_page,
                   branches, br_i, commit_data, stale, fileVars, callVars, histVars,
                   raised>>

\* lines 170-200 for one eligible branch and its commit
ClassifyCommit ==
    /\ pc = "cutoff"
    /\ \E d \in (0 - CommitSpread)..CommitSpread, h \in SampleHours :
         LET cd == Commit(TRUE, "Ann", "ann@x.org", TRUE,
                          MonthOfIndex(MonthIndex(now_et) - months + d, h))
             recs == classify("APP1-api", Branch("feature-a", FALSE, "c-feature-a"),
                              cd, now_et, cutoff)
         IN /\ commit_data' = cd
            /\ stale' = recs
            /\ found' = recs
    /\ pc' = "classified"
    /\ UNCHANGED <<inputVars, itaps, cutoff, headers, repos, page, repo_i,
                   branch_page, branches, br_i, fileVars, callVars, brSeen, raised>>

NextCalendar ==
    \/ CalcCutoff
    \/ ClassifyCommit

SpecCalendar == InitCalendar /\ [][NextCalendar]_vars

(***************************************************************************)
(* Properties                                                              *)
(***************************************************************************)
InFlight == pc \in RequestStates
Unwritten == ~out_dir /\ ~csv.written /\ ~html.written

\* C1: a rate-limit response does not consume the retry budget: while a call
\* is in flight the attempts used up are exactly its failed attempts, and a
\* call raises only after MAX_RETRIES failed attempts.
C1_RateLimitKeepsRetryBudget ==
    /\ InFlight => attempt = hist.nFail + 1
    /\ pc = "failed" => hist.nFail = MAX_RETRIES

\* C2: every github_get call that has finished ended in SUCCESS (it returned
\* the decoded body) or in PERMANENT_FAILURE (it raised), never otherwise.
C2_CallEndsInSuccessOrFailure ==
    outcome \in {"none", "SUCCESS", "PERMANENT_FAILURE"}

\* C3: an enumeration that completed yields every page before the provider's
\* first empty page, in order: the repository list once the repository loop
\* has begun, and the branches of every matching repository already passed.
C3_EnumerationIsComplete ==
    /\ repo_i >= 1 => repos = UpToFirstEmpty(RepoPages)
    /\ \A j \in 1..Len(repos) :
         (j < repo_i /\ repo_matches(repos[j].name, itaps))
            => brSeen[j] = UpToFirstEmpty(BranchPages(repos[j].name))

\* C4: a call all of whose attempts failed (no rate-limit response) made
\* exactly MAX_RETRIES requests and raised once, and the scan ended with no
\* report written.
C4_RetryExhaustion ==
    (hist.nreq >= 1 /\ hist.nFail = hist.nreq)
       => /\ hist.nreq = MAX_RETRIES
          /\ raised = 1
          /\ outcome = "PERMANENT_FAILURE"
          /\ pc = "failed"
          /\ Unwritten

C4_Witness ==
    /\ pc = "failed"
    /\ hist.nFail = MAX_RETRIES
    /\ hist.nRL = 0
    /\ Len(found) >= 2

\* C5: once a github_get call has raised, the scan is over: main is in the
\* failed end state with no request in flight, no report file and no output
\* directory exist, and no later step changes anything.
C5_PermanentFailureAborts ==
    /\ [](raised > 0 => (pc = "failed" /\ ~InFlight /\ Unwritten))
    /\ [][raised > 0 => UNCHANGED vars]_vars

C5_Witness ==
    /\ raised > 0
    /\ pc = "failed"
    /\ Len(stale) >= 2
    /\ repo_i > 1

\* the branch of the provider that a record (repository, branch) names
ProviderBranches(repo_name) ==
    LET all == Flatten(BranchPages(repo_name))
    IN {all[i] : i \in 1..Len(all)}

IsProtectedRecord(r) ==
    \/ \E br \in ProviderBranches(r.repo) : br.name = r.branch /\ br.protected
    \/ r.branch \in {"main", "master", "develop", "prod"}
    \/ Len(r.branch) >= 8 /\ SubSeq(r.branch, 1, 8) = "release/"

\* C6: no record of the stale list (nor of the report files) belongs to a
\* branch flagged protected, named main, master, develop or prod, or whose
\* name starts with release/.
C6_NoProtectedBranchIsStale ==
    /\ \A i \in 1..Len(stale) : ~IsProtectedRecord(stale[i])
    /\ \A i \in 1..Len(csv.rows) : ~IsProtectedRecord(csv.rows[i])
    /\ \A i \in 1..Len(html.rows) : ~IsProtectedRecord(html.rows[i])

\* the scan got past the three kinds of protected branch and holds records
C6_Witness ==
    /\ Len(stale) >= 2
    /\ \E br \in ProviderBranches("APP1-api") :
         br.name = "release/1" /\ br \in {brSeen[1][i] : i \in 1..Len(brSeen[1])}
    /\ \E i \in 1..Len(brSeen[1]) : brSeen[1][i].protected
    /\ \E i \in 1..Len(brSeen[1]) : brSeen[1][i].name = "main"
    /\ repo_i > 1

\* the calendar-month age of the commit just classified
ClassifiedAge == age_months(now_et, astimezone_ET(commit_data.date))

C8_RecordAgeAtLeastMonths ==
    \A i \in 1..Len(stale) : stale[i].age \in Int /\ stale[i].age >= months

\* a record exactly as old as the threshold, the cutoff being in an earlier year
C8_Witness ==
    /\ pc = "classified"
    /\ stale # << >>
    /\ stale[1].age = months
    /\ months >= now_et.month
    /\ cutoff.year < now_et.year

\* C9: the cutoff is day 1, 00:00 of a month 1..12 exactly `months` calendar
\* months before now's month; the year is decremented whenever the month
\* subtraction goes below 1; now = 2024-01 and months = 2 give 2023-11-01.
C9_CutoffIsMonthsBefore ==
    pc \in {"cutoff", "classified"} =>
       /\ cutoff.hour = 0
       /\ cutoff.month \in 1..12
       /\ (now_et.year * 12 + now_et.month) - (cutoff.year * 12 + cutoff.month) = months
       /\ months >= now_et.month => cutoff.year < now_et.year
       /\ months < now_et.month => cutoff.year = now_et.year
       /\ (now_et = [year |-> 2024, month |-> 1] /\ months = 2)
             => cutoff = [year |-> 2023, month |-> 11, hour |-> 0]

C9_Witness ==
    /\ pc = "cutoff"
    /\ now_et = [year |-> 2024, month |-> 1]
    /\ months = 2
    /\ cutoff = [year |-> 2023, month |-> 11, hour |-> 0]

\* where the provider lists the branch of record r: <<repository position,
\* branch position>> in enumeration order
DiscoveryPos(r) ==
    LET ri == CHOOSE j \in 1..Len(AllRepos) : AllRepos[j].name = r.repo
        all == Flatten(BranchPages(r.repo))
        bi == CHOOSE k \in 1..Len(all) : all[k].name = r.branch
    IN <<ri, bi>>

PosBefore(a, b) == a[1] < b[1] \/ (a[1] = b[1] /\ a[2] < b[2])

\* C10: the report is the discovered sequence stably sorted by age
\* descending: ages never increase along it, it is a permutation of the
\* discovered records, and records of equal age keep their discovery order
\* (repository order, then branch order).
C10_ReportIsStableSortByAgeDesc ==
    /\ \A i, j \in 1..Len(found) :
         i < j => PosBefore(DiscoveryPos(found[i]), DiscoveryPos(found[j]))
    /\ pc = "done_report" =>
         /\ stale = csv.rows
         /\ html.rows = csv.rows
         /\ Len(csv.rows) = Len(found)
         /\ \A i, j \in 1..Len(csv.rows) : i < j => csv.rows[i].age >= csv.rows[j].age
         /\ \E p \in [1..Len(found) -> 1..Len(found)] :
              /\ \A i, j \in 1..Len(found) : i # j => p[i] # p[j]
              /\ \A i \in 1..Len(found) : csv.rows[i] = found[p[i]]
              /\ \A i, j \in 1..Len(found) :
                   (i < j /\ csv.rows[i].age = csv.rows[j].age) => p[i] < p[j]

\* a report with two records of equal age from different repositories, and an
\* older record discovered after a younger one
C10_Witness ==
    /\ pc = "done_report"
    /\ csv.rows # found
    /\ \E i, j \in 1..Len(csv.rows) :
         /\ i < j
         /\ csv.rows[i].age = csv.rows[j].age
         /\ csv.rows[i].repo # csv.rows[j].repo

\* C11: a scan that completes with no stale record ends normally in the
\* no-stale exit, having created no output directory and written no file; a
\* directory or file exists only with at least one record.
C11_NoRecordsNoOutput ==
    /\ (pc \in {"done_report", "done_nostale"} /\ stale = << >>)
          => (pc = "done_nostale" /\ Unwritten /\ raised = 0)
    /\ pc = "done_nostale" => (stale = << >> /\ Unwritten)
    /\ (out_dir \/ csv.written \/ html.written)
          => (pc = "done_report" /\ stale # << >>)

\* a complete scan without any failed or rate-limited request that finds no
\* branch old enough
C11_Witness ==
    /\ pc = "done_nostale"
    /\ raised = 0
    /\ repos = AllRepos
    /\ \A j \in 1..Len(repos) :
         repo_matches(repos[j].name, itaps)
            => brSeen[j] = Flatten(BranchPages(repos[j].name))
    /\ ~commit_data.none
    /\ stale = << >>

\* C12: without a credential the run ends in the configuration error and no
\* request is ever issued; a request is issued only after the credential
\* check passed, and every request carries the credential header and the
\* fixed client header.
C12_CredentialBeforeAnyRequest ==
    /\ token = "" =>
          /\ pc \in {"start", "config_error"}
          /\ request = NoRequest
          /\ response = NoResponse
          /\ hist.nreq = 0
    /\ pc = "config_error" => token = ""
    /\ (InFlight \/ hist.nreq > 0) =>
          /\ token # ""
          /\ request # NoRequest
          /\ request.headers.authorization = "token " \o token
          /\ request.headers.user_agent = "enterprise-github-audit-prod"
          /\ request.headers.accept = "application/vnd.github+json"
    /\ pc = "start" => (request = NoRequest /\ hist.nreq = 0)

C12_Witness ==
    /\ pc = "config_error"
    /\ token = ""
    /\ request = NoRequest

\* the commit the provider holds for the branch a record names
RecordCommit(r) ==
    CommitOf((CHOOSE br \in ProviderBranches(r.repo) : br.name = r.branch).url)

ProtectedBranch(br) ==
    \/ br.protected
    \/ br.name \in {"main", "master", "develop", "prod"}
    \/ Len(br.name) >= 8 /\ SubSeq(br.name, 1, 8) = "release/"

\* C13: a branch whose commit has no author or no author date yields no
\* record; when such a commit arrives nothing is appended, nothing is raised
\* and the scan goes on with the next eligible branch of the same page, or
\* with the next page of the same repository.
C13_UndatedCommitIsSkipped ==
    /\ [](\A i \in 1..Len(found) :
             RecordCommit(found[i]).has_author /\ RecordCommit(found[i]).has_date)
    /\ [][(/\ pc = "commit"
           /\ ResponseSuccess
           /\ LET cd == CommitOf(branches[br_i].url)
              IN ~cd.has_author \/ ~cd.has_date)
          => /\ stale' = stale
             /\ found' = found
             /\ raised' = raised
             /\ Unwritten'
             /\ repo_i' = repo_i
             /\ branches' = branches
             /\ \/ /\ pc' = "commit"
                   /\ br_i' > br_i
                   /\ branch_page' = branch_page
                   /\ ~ProtectedBranch(branches[br_i'])
                   /\ \A k \in (br_i + 1)..(br_i' - 1) : ProtectedBranch(branches[k])
                \/ /\ pc' = "branches"
                   /\ branch_page' = branch_page + 1
                   /\ \A k \in (br_i + 1)..Len(branches) : ProtectedBranch(branches[k])
         ]_vars

\* the commit without author date was skipped and the next branch of the page
\* is being fetched, in the repository after the one whose commit without
\* author was skipped
C13_Witness ==
    /\ pc = "commit"
    /\ repo_i = 3
    /\ commit_data = CommitOf("c-nodate-d")
    /\ branches[br_i].name = "tie-c"
    /\ \E i \in 1..Len(brSeen[1]) : brSeen[1][i].name = "noauthor-g"
    /\ Len(stale) = 2
    /\ raised = 0

\* a 429 response carrying a rate-limit indicator
Is429RateLimit(r) == r.status = 429 /\ contains(lower(r.text), "rate limit")

LastWait == hist.waits[Len(hist.waits)]

\* max(reset - now, 5) for response r
RateLimitWait(r) == IF r.reset - EpochNow > 5 THEN r.reset - EpochNow ELSE 5

\* C14: a 429 response with a rate-limit indicator is handled as a rate-limit
\* signal: the call does not fail on it, it counts as a rate-limit response
\* and not as a failed attempt, and the wait that follows it lasts until the
\* reset time (at least 5 seconds) instead of the retry backoff.
C14_Status429IsRateLimit ==
    (Is429RateLimit(response) /\ (InFlight \/ pc = "failed")) =>
       /\ pc # "failed"
       /\ hist.nRL >= 1
       /\ hist.waits # << >>
       /\ LastWait.kind = "rate_limit"
       /\ LastWait.secs = RateLimitWait(response)

\* a 403 response carrying a rate-limit indicator
Is403RateLimit(r) == r.status = 403 /\ contains(lower(r.text), "rate limit")

RateLimitWaits == {i \in 1..Len(hist.waits) : hist.waits[i].kind = "rate_limit"}

\* C15: after a rate-limit response the call has waited once, for
\* max(reset - now, 5) seconds, and the same request is in flight again: the
\* call has not ended, and it has slept once per rate-limit response.
C15_RateLimitWaitsThenRetries ==
    Is403RateLimit(response) =>
       /\ InFlight
       /\ hist.nRL >= 1
       /\ Cardinality(RateLimitWaits) = hist.nRL
       /\ hist.nreq = hist.nRL + hist.nFail + 1
       /\ hist.waits # << >>
       /\ LastWait.kind = "rate_limit"
       /\ LastWait.secs = RateLimitWait(response)
       /\ LastWait.secs >= 5
       /\ LastWait.secs >= response.reset - EpochNow

\* the --itaps argument as configured: some comma-separated entry, trimmed and
\* upper-cased, occurs in the upper-cased repository name
FilterMatches(repo_name) ==
    LET entries == split(itaps_arg)
    IN \E k \in 1..Len(entries) :
          contains(upper(repo_name), upper(strip(entries[k])))

CommitUrls(repo_name) == {br.url : br \in ProviderBranches(repo_name)}

\* C16: branches are listed, commits fetched and records produced only for
\* repositories whose name contains a configured filter substring (compared
\* after trimming and upper-casing); for a repository matching no filter no
\* branch-listing or commit request is issued and no record names it.
C16_OnlyFilteredRepositoriesAreScanned ==
    /\ \A j \in 1..Len(AllRepos) :
          ~FilterMatches(AllRepos[j].name) =>
             /\ brSeen[j] = << >>
             /\ request.url # BranchesUrl(AllRepos[j].name)
             /\ request.url \notin CommitUrls(AllRepos[j].name)
    /\ pc \in {"branches", "commit"} => FilterMatches(repos[repo_i].name)
    /\ \A i \in 1..Len(stale) : FilterMatches(stale[i].repo)
    /\ \A i \in 1..Len(csv.rows) : FilterMatches(csv.rows[i].repo)
    /\ \A i \in 1..Len(html.rows) : FilterMatches(html.rows[i].repo)

\* the filter " app1 ,zz9" retained the lower-case repository app1-web, which
\* has a record, after the repository other-svc was passed over
C16_Witness ==
    /\ itaps_arg = " app1 ,zz9"
    /\ ~FilterMatches("other-svc")
    /\ \E j \in 1..Len(repos) : repos[j].name = "other-svc" /\ repo_i > j
    /\ \E i \in 1..Len(stale) : stale[i].repo = "app1-web"

\* what the remote state holds for the scan's arguments: the records of every
\* branch of every retained repository, in provider order
RECURSIVE RemoteBranchRecords(_, _)
RemoteBranchRecords(repo_name, brs) ==
    IF brs = << >> THEN << >>
    ELSE (IF is_excluded(Head(brs)) THEN << >>
          ELSE classify(repo_name, Head(brs), CommitOf(Head(brs).url), now_et,
                        calculate_cutoff(now_et, months)))
         \o RemoteBranchRecords(repo_name, Tail(brs))

RECURSIVE RemoteRecords(_)
RemoteRecords(rs) ==
    IF rs = << >> THEN << >>
    ELSE (IF FilterMatches(Head(rs).name)
          THEN RemoteBranchRecords(Head(rs).name,
                                   UpToFirstEmpty(BranchPages(Head(rs).name)))
          ELSE << >>)
         \o RemoteRecords(Tail(rs))

\* the sorted record sequence of the run in which every request is answered
\* at once
ReferenceRecords == sort_by_age_desc(RemoteRecords(UpToFirstEmpty(RepoPages)))

ReferenceFile == IF ReferenceRecords = << >> THEN NoFile ELSE File(ReferenceRecords)

\* C17: two runs with the same arguments against the same remote state yield
\* the same sorted records and the same files.  The run whose requests are all
\* answered at once is one of them, so every run that completes must end with
\* the records and files of that run.
C17_CompletedRunsAgree ==
    pc \in {"done_report", "done_nostale"} =>
       /\ stale = ReferenceRecords
       /\ csv = ReferenceFile
       /\ html = ReferenceFile
       /\ out_dir = (ReferenceRecords # << >>)

BackoffWaits == {i \in 1..Len(hist.waits) : hist.waits[i].kind = "backoff"}

\* C18: the wait after a failed attempt (not a rate-limit response) lasts
\* RETRY_BACKOFF ** attempt seconds: 2 s after attempt 1 and 4 s after attempt
\* 2, each backoff the double of the one before it; every failed attempt but
\* the final one, which raises, is followed by one backoff wait.
C18_BackoffDoublesAndStopsAtLastAttempt ==
    /\ \A i \in BackoffWaits :
          LET w == hist.waits[i]
          IN /\ w.secs = RETRY_BACKOFF ^ w.attempt
             /\ w.attempt < MAX_RETRIES
             /\ w.attempt = 1 => w.secs = 2
             /\ w.attempt = 2 => w.secs = 4
    /\ \A i \in BackoffWaits :
          (i + 1) \in BackoffWaits => hist.waits[i + 1].secs = 2 * hist.waits[i].secs
    /\ Cardinality(BackoffWaits) = IF pc = "failed" THEN hist.nFail - 1 ELSE hist.nFail

\* three failed attempts: 2 s, then 4 s, then the exception with no wait
C18_Witness ==
    /\ pc = "failed"
    /\ hist.nFail = MAX_RETRIES
    /\ hist.waits = <<Wait("backoff", 2, 1), Wait("backoff", 4, 2)>>

\* C19: a github_get call issues at most MAX_RETRIES requests, whatever the
\* responses are (success, failure or rate limit): the request in flight is
\* the attempt-th of its call with attempt <= MAX_RETRIES, and every response
\* either ends the call or is followed by the next attempt's request, so the
\* call ends after at most MAX_RETRIES responses.
C19_CallIssuesAtMostMaxRetriesRequests ==
    /\ [](/\ hist.nreq <= MAX_RETRIES
          /\ hist.nRL + hist.nFail <= hist.nreq
          /\ InFlight => /\ attempt \in 1..MAX_RETRIES
                         /\ hist.nreq = attempt
                         /\ hist.nreq = hist.nRL + hist.nFail + 1)
    /\ [][InFlight =>
            \/ pc' \notin RequestStates
            \/ hist' = NewCall /\ attempt' = 1
            \/ /\ attempt' = attempt + 1
               /\ hist'.nreq = hist.nreq + 1
               /\ request' = request
               /\ pc' = pc]_vars

\* a call that used all its requests on two rate-limit responses and a success
C19_Witness ==
    /\ hist.nreq = MAX_RETRIES
    /\ hist.nRL = 2
    /\ hist.nFail = 0
    /\ outcome = "SUCCESS"
    /\ pc \in {"done_report", "done_nostale"}

\* the pages 1..n of a listing, concatenated
FirstPages(pages, n) == Flatten(SubSeq(pages, 1, n))

\* C20: the provider's listings end with an empty page, and then for every
\* sequence of successful, failed and rate-limited responses the scan reaches
\* a final state (report written, no-stale exit, or abort); the request for
\* page p of a listing is made when exactly the non-empty pages 1..p-1 have
\* been received, each non-empty page raises the counter by one, and within
\* one pagination loop the counter never goes back.
C20_ScanTerminatesAndPagesAdvance ==
    /\ <>(pc \in EndStates)
    /\ [](/\ pc = "repos" =>
                /\ page - 1 \in 0..Len(RepoPages)
                /\ repos = FirstPages(RepoPages, page - 1)
                /\ \A q \in 1..(page - 1) : RepoPages[q] # << >>
          /\ pc = "branches" =>
                LET pages == BranchPages(repos[repo_i].name)
                IN /\ branch_page - 1 \in 0..Len(pages)
                   /\ brSeen[repo_i] = FirstPages(pages, branch_page - 1)
                   /\ \A q \in 1..(branch_page - 1) : pages[q] # << >>
          /\ pc = "commit" =>
                LET pages == BranchPages(repos[repo_i].name)
                IN /\ branch_page \in 1..Len(pages)
                   /\ branches = pages[branch_page]
                   /\ brSeen[repo_i] = FirstPages(pages, branch_page))
    /\ [][/\ page' \in {page, page + 1}
          /\ (pc = "repos" /\ ResponseSuccess /\ Body # << >>) =>
                (pc' = "repos" /\ page' = page + 1 /\ repos' = repos \o Body)
          /\ (pc = "repos" /\ pc' = "repos" /\ page' = page) => repos' = repos
          /\ repo_i' >= repo_i
          /\ repo_i' = repo_i => branch_page' \in {branch_page, branch_page + 1}
          /\ (repo_i' # repo_i /\ pc' = "branches") => branch_page' = 1]_vars

\* a scan that went through both repository pages and both branch pages of
\* APP1-api, met rate-limit and failed responses in its last call, and ended
\* with a report
C20_Witness ==
    /\ pc = "done_report"
    /\ page = Len(RepoPages) + 1
    /\ Len(brSeen[1]) = Len(Flatten(BranchPages("APP1-api")))
    /\ hist.nRL >= 1
    /\ hist.nFail >= 1

====
